---- MODULE Spec2Model ----
(***************************************************************************)
(* A model of find_hdT (src/prepare_hdT.py): the builder of the hdT table  *)
(* (threshold ladder d, level vectors h, level minima T) of a scalar       *)
(* function sampled over [l, r).                                           *)
(*                                                                         *)
(* Numbers are fixed-point: one model unit is 2^-UnitBits, so the real     *)
(* value v is v * 2^UnitBits units. The sampling resolution of np.arange  *)
(* is one unit.  Every threshold the code builds is a power of two that is *)
(* a whole number of units, and so is every working y value, which makes   *)
(* the arithmetic of the loop exact.                                       *)
(*                                                                         *)
(* Python lists and arrays are functions over 0..n-1, so that indices read *)
(* as in the source.  None and +infinity are the empty tuple; a present    *)
(* value v is <<v>>.                                                       *)
(***************************************************************************)
EXTENDS Integers, Sequences, FiniteSets, TLC

----------------------------------------------------------------------------
(* Bounds of the model *)

UnitBits == 2

MaxX == 4

MaxDy == 8

ConfigDy == 2

ConfigL == 0

ConfigR == 4

----------------------------------------------------------------------------
(* Values *)

None == <<>>

Some(v) == <<v>>

IsNone(o) == o = <<>>

Val(o) == o[1]

Inf == <<>>

Fin(v) == <<v>>

RECURSIVE Pow2(_)
Pow2(e) == IF e <= 0 THEN 1 ELSE 2 * Pow2(e - 1)

\* Python list / numpy array helpers (0-based)
Size(a) == Cardinality(DOMAIN a)

Empty == [j \in {} |-> 0]

Append0(a, v) == [j \in 0..Size(a) |-> IF j < Size(a) THEN a[j] ELSE v]

\* np.min / np.max of a non-empty array
np_min(a) == CHOOSE v \in {a[j] : j \in DOMAIN a} : \A j \in DOMAIN a : v <= a[j]

np_max(a) == CHOOSE v \in {a[j] : j \in DOMAIN a} : \A j \in DOMAIN a : v >= a[j]

\* floor(log2(n)) and ceil(log2(n)) of a positive number of units, as a
\* number of bits relative to one unit
FloorLog2(n) == CHOOSE e \in 0..n : Pow2(e) <= n /\ n < Pow2(e + 1)

CeilLog2(n) == CHOOSE e \in 0..n : Pow2(e) >= n /\ (e = 0 \/ Pow2(e - 1) < n)

----------------------------------------------------------------------------
(* Collaborators that come from utils and config.json *)

\* config.json
config == [dy |-> ConfigDy, l |-> ConfigL, r |-> ConfigR]

\* the scalar functions that globals() resolves by name
Registry ==
    ("ident"    :> [kind |-> "lin", a |-> 1,  c |-> 0]) @@
    ("neg"      :> [kind |-> "lin", a |-> -1, c |-> 0]) @@
    ("twice"    :> [kind |-> "lin", a |-> 2,  c |-> 1]) @@
    ("negtwice" :> [kind |-> "lin", a |-> -2, c |-> 3]) @@
    ("vee"      :> [kind |-> "vee", a |-> 1,  c |-> 2])

Names == DOMAIN Registry \cup {"unknown"}

\* target_func(v)
Apply(f, v) ==
    IF f.kind = "vee"
    THEN (IF v >= f.c THEN v - f.c ELSE f.c - v)
    ELSE f.a * v + f.c

\* inverse_f(target_func, y_value, b): the x with f(x) + b = y_value
\* (for "vee", the x on the left branch)
inverse_f(f, yv, bias) ==
    IF f.kind = "vee"
    THEN f.c - (yv - bias)
    ELSE IF f.a > 0
         THEN (yv - bias - f.c) \div f.a
         ELSE (-(yv - bias - f.c)) \div (-f.a)

\* select_elements_by_step(y, dy) returns the indices it keeps, in order;
\* any subset of the indices is a possible answer
SortedIdx(S) ==
    [k \in 0..(Cardinality(S) - 1) |->
        CHOOSE e \in S : Cardinality({z \in S : z < e}) = k]

Take(a, idx) == [k \in DOMAIN idx |-> a[idx[k]]]

----------------------------------------------------------------------------
(* The statements of find_hdT as operators *)

\* the statements of find_hdT in program order
ProgramSaveFirst ==
    <<"lookup", "defaults", "sample", "evaluate", "bias", "bits", "thin",
      "save", "init", "loop", "package", "finish", "done">>

Program ==
    <<"lookup", "defaults", "sample", "evaluate", "bias", "bits", "thin",
      "init", "loop", "package", "save", "finish", "done">>

Pos(step) == CHOOSE i \in 1..Len(Program) : Program[i] = step

After(step) == Program[Pos(step) + 1]

\* lines 32-38: the locals dy, l, r after the defaults branch
Defaults(a) ==
    IF IsNone(a.dy)
    THEN [dy |-> Some(config.dy), l |-> Some(config.l), r |-> Some(config.r),
          custom |-> FALSE]
    ELSE [dy |-> a.dy, l |-> a.l, r |-> a.r, custom |-> TRUE]

\* line 41: np.arange(lo, hi, resolution), resolution = one unit
ArangeEitherWay(lo, hi) ==
    IF hi >= lo THEN [j \in 0..(hi - lo - 1) |-> lo + j]
                ELSE [j \in 0..(lo - hi - 1) |-> hi + j]

Arange(lo, hi) == [j \in 0..(hi - lo - 1) |-> lo + j]

\* line 46: b = -m
BiasKeepSign(m) == m

Bias(m) == -m

\* line 51: i_bit = int(np.ceil(np.log2(M)))
IBitFloor(maxy) == FloorLog2(maxy) - UnitBits

IBit(maxy) == CeilLog2(maxy) - UnitBits

\* line 52: f_bit = -int(np.floor(np.log2(dy)))
FBit(step) == -(FloorLog2(step) - UnitBits)

\* range(K) has max(K, 0) elements
RangeLen(k) == IF k > 0 THEN k ELSE 0

\* line 60: d = [0.0] + [2 ** (i_bit - i) for i in range(K)]
LadderLong(ib, k) ==
    [j \in 0..(RangeLen(k) + 1) |-> IF j = 0 THEN 0 ELSE Pow2(ib - (j - 1) + UnitBits)]

LadderFlat(ib, k) ==
    [j \in 0..RangeLen(k) |-> IF j = 0 THEN 0 ELSE Pow2(ib + UnitBits)]

LadderShifted(ib, k) ==
    [j \in 0..RangeLen(k) |-> IF j = 0 THEN 0 ELSE Pow2(ib - (j - 1) + UnitBits - 1)]

LadderQuarter(ib, k) ==
    [j \in 0..RangeLen(k) |-> IF j = 0 THEN 0 ELSE Pow2(ib - 2 * (j - 1) + UnitBits)]

Ladder(ib, k) ==
    [j \in 0..RangeLen(k) |-> IF j = 0 THEN 0 ELSE Pow2(ib - (j - 1) + UnitBits)]

\* line 62: T = [0.0] + [np.inf for _ in range(K)]
InitT(k) == [j \in 0..RangeLen(k) |-> IF j = 0 THEN Fin(0) ELSE Inf]

\* line 66: v_at_t = np.array([inverse_f(target_func, i, b) for i in y])
LevelVector(f, yy, bias) == [k \in DOMAIN yy |-> inverse_f(f, yy[k], bias)]

\* line 68: mask = y > d[t]
Mask(yy, thr) == {k \in DOMAIN yy : yy[k] > thr}

\* line 69: y[mask] -= d[t]
Subtract(yy, mask, thr) ==
    [k \in DOMAIN yy |-> IF k \in mask THEN yy[k] - thr ELSE yy[k]]

\* line 70: np.min(v_at_t[mask]) if np.any(mask) else T[t]
LevelMinAll(v, mask, old) ==
    IF DOMAIN v # {} THEN Fin(np_min(v)) ELSE old

LevelMin(v, mask, old) ==
    IF mask # {}
    THEN Fin(CHOOSE m \in {v[k] : k \in mask} : \A k \in mask : m <= v[k])
    ELSE old

\* line 73: np.array(h).T, one row per sample and one column per level
Transpose(hh, n) ==
    [shape |-> <<n, Size(hh)>>,
     at    |-> [s \in 0..(n - 1) |-> [lev \in DOMAIN hh |-> hh[lev][s]]]]

----------------------------------------------------------------------------
(* State *)

VARIABLES
    pc,           \* the statement find_hdT executes next, "done" or "failed"
    failedAt,     \* the statement that raised, when pc = "failed"
    err,          \* the exception raised, when pc = "failed"
    args,         \* the call's arguments: target_func_name, dy, l, r
    target_func,  \* line 26
    dy, l, r,     \* the locals of the same names
    save_path,    \* lines 36 and 38
    x, y,         \* the sample and the working copy of its image
    b, M, i_bit, f_bit, K,
    d, h, T,      \* the three lists being built
    t,            \* the loop variable of line 65
    hdT,          \* the record of lines 78-90
    store,        \* what torch.save left at save_path
    yHist         \* history: yHist[0] is y at line 62, yHist[i] is y after iteration i

vars == <<pc, failedAt, err, args, target_func, dy, l, r, save_path, x, y,
          b, M, i_bit, f_bit, K, d, h, T, t, hdT, store, yHist>>

Optional(S) == {None} \cup {Some(v) : v \in S}

Init ==
    /\ pc = "lookup"
    /\ failedAt = ""
    /\ err = ""
    /\ args \in [name : Names,
                 dy   : Optional(-1..MaxDy),
                 l    : Optional(0..MaxX),
                 r    : Optional(0..MaxX)]
    /\ target_func = None
    /\ dy = args.dy
    /\ l = args.l
    /\ r = args.r
    /\ save_path = None
    /\ x = Empty
    /\ y = Empty
    /\ b = 0
    /\ M = 0
    /\ i_bit = 0
    /\ f_bit = 0
    /\ K = 0
    /\ d = Empty
    /\ h = Empty
    /\ T = Empty
    /\ t = 0
    /\ hdT = None
    /\ store = "absent"
    /\ yHist = Empty

Fail(kind) ==
    /\ pc' = "failed"
    /\ failedAt' = pc
    /\ err' = kind

Goto(step) ==
    /\ pc' = step
    /\ UNCHANGED <<failedAt, err>>

----------------------------------------------------------------------------
(* Actions: the statements of find_hdT *)

\* lines 26-29: target_func = globals()[target_func_name]
Lookup ==
    /\ pc = "lookup"
    /\ IF args.name \in DOMAIN Registry
       THEN /\ target_func' = Registry[args.name]
            /\ Goto(After("lookup"))
       ELSE /\ Fail("KeyError")
            /\ UNCHANGED target_func
    /\ UNCHANGED <<args, dy, l, r, save_path, x, y, b, M, i_bit, f_bit, K,
                   d, h, T, t, hdT, store, yHist>>

\* lines 32-38
UseDefaults ==
    /\ pc = "defaults"
    /\ LET v == Defaults([dy |-> dy, l |-> l, r |-> r])
       IN /\ dy' = v.dy
          /\ l' = v.l
          /\ r' = v.r
          /\ save_path' = IF v.custom
                          THEN Some(<<args.name, v.dy, v.l, v.r>>)
                          ELSE Some(<<args.name>>)
    /\ Goto(After("defaults"))
    /\ UNCHANGED <<args, target_func, x, y, b, M, i_bit, f_bit, K,
                   d, h, T, t, hdT, store, yHist>>

\* line 41: x = np.arange(l, r, 0.001).  A start of None raises; a stop of
\* None makes numpy take the start as the stop and 0 as the start.
Sample ==
    /\ pc = "sample"
    /\ IF IsNone(l)
       THEN /\ Fail("TypeError")
            /\ UNCHANGED x
       ELSE /\ x' = IF IsNone(r) THEN Arange(0, Val(l)) ELSE Arange(Val(l), Val(r))
            /\ Goto(After("sample"))
    /\ UNCHANGED <<args, target_func, dy, l, r, save_path, y, b, M, i_bit,
                   f_bit, K, d, h, T, t, hdT, store, yHist>>

\* line 42: y = target_func(x)
Evaluate ==
    /\ pc = "evaluate"
    /\ y' = [j \in DOMAIN x |-> Apply(target_func, x[j])]
    /\ Goto(After("evaluate"))
    /\ UNCHANGED <<args, target_func, dy, l, r, save_path, x, b, M, i_bit,
                   f_bit, K, d, h, T, t, hdT, store, yHist>>

\* lines 45-47: m = np.min(y); b = -m; y += b.  np.min of an empty array raises.
Shift ==
    /\ pc = "bias"
    /\ IF DOMAIN y = {}
       THEN /\ Fail("ValueError")
            /\ UNCHANGED <<b, y>>
       ELSE /\ b' = Bias(np_min(y))
            /\ y' = [j \in DOMAIN y |-> y[j] + b']
            /\ Goto(After("bias"))
    /\ UNCHANGED <<args, target_func, dy, l, r, save_path, x, M, i_bit,
                   f_bit, K, d, h, T, t, hdT, store, yHist>>

\* lines 50-53.  log2 of 0 is -inf and int(-inf) raises OverflowError;
\* log2 of a negative number is nan and int(nan) raises ValueError.
BitWidths ==
    /\ pc = "bits"
    /\ M' = np_max(y)
    /\ IF M' <= 0
       THEN /\ Fail("OverflowError")
            /\ UNCHANGED <<i_bit, f_bit, K>>
       ELSE /\ i_bit' = IBit(M')
            /\ IF Val(dy) <= 0
               THEN /\ Fail(IF Val(dy) = 0 THEN "OverflowError" ELSE "ValueError")
                    /\ UNCHANGED <<f_bit, K>>
               ELSE /\ f_bit' = FBit(Val(dy))
                    /\ K' = i_bit' + f_bit'
                    /\ Goto(After("bits"))
    /\ UNCHANGED <<args, target_func, dy, l, r, save_path, x, y, b,
                   d, h, T, t, hdT, store, yHist>>

\* lines 56-57: idx, y = select_elements_by_step(y, dy); x = x[idx]
Thin ==
    /\ pc = "thin"
    /\ \E S \in SUBSET (DOMAIN y) :
          LET idx == SortedIdx(S)
          IN /\ y' = Take(y, idx)
             /\ x' = Take(x, idx)
    /\ Goto(After("thin"))
    /\ UNCHANGED <<args, target_func, dy, l, r, save_path, b, M, i_bit,
                   f_bit, K, d, h, T, t, hdT, store, yHist>>

\* lines 60-62
InitLadder ==
    /\ pc = "init"
    /\ d' = Ladder(i_bit, K)
    /\ h' = [j \in {0} |-> x]
    /\ T' = InitT(K)
    /\ t' = 1
    /\ yHist' = [j \in {0} |-> y]
    /\ Goto(After("init"))
    /\ UNCHANGED <<args, target_func, dy, l, r, save_path, x, y, b, M, i_bit,
                   f_bit, K, hdT, store>>

\* lines 65-70: one iteration of the loop
LoopStep ==
    /\ pc = "loop"
    /\ t <= K
    /\ LET v_at_t == LevelVector(target_func, y, b)
           mask   == Mask(y, d[t])
       IN /\ h' = Append0(h, v_at_t)
          /\ y' = Subtract(y, mask, d[t])
          /\ T' = [T EXCEPT ![t] = LevelMin(v_at_t, mask, T[t])]
    /\ yHist' = Append0(yHist, y')
    /\ t' = t + 1
    /\ UNCHANGED <<pc, failedAt, err>>
    /\ UNCHANGED <<args, target_func, dy, l, r, save_path, x, b, M, i_bit,
                   f_bit, K, d, hdT, store>>

\* line 65: range(1, K + 1) is exhausted
LoopExit ==
    /\ pc = "loop"
    /\ t > K
    /\ Goto(After("loop"))
    /\ UNCHANGED <<args, target_func, dy, l, r, save_path, x, y, b, M, i_bit,
                   f_bit, K, d, h, T, t, hdT, store, yHist>>

\* lines 73-90
Package ==
    /\ pc = "package"
    /\ hdT' = [h |-> Transpose(h, Size(x)), d |-> d, T |-> T, b |-> b, dy |-> dy,
               K |-> K, i_bit |-> i_bit, f_bit |-> f_bit, l |-> l, r |-> r,
               num_h |-> Size(x)]
    /\ Goto(After("package"))
    /\ UNCHANGED <<args, target_func, dy, l, r, save_path, x, y, b, M, i_bit,
                   f_bit, K, d, h, T, t, store, yHist>>

\* line 93: torch.save(hdT, save_path) writes the whole record, or raises
\* and leaves nothing or a truncated file
Save ==
    /\ pc = "save"
    /\ \/ /\ store' = "complete"
          /\ Goto(After("save"))
       \/ /\ store' \in {"absent", "partial"}
          /\ Fail("IOFailure")
    /\ UNCHANGED <<args, target_func, dy, l, r, save_path, x, y, b, M, i_bit,
                   f_bit, K, d, h, T, t, hdT, yHist>>

\* lines 96-101: print the summary and return hdT
Finish ==
    /\ pc = "finish"
    /\ Goto(After("finish"))
    /\ UNCHANGED <<args, target_func, dy, l, r, save_path, x, y, b, M, i_bit,
                   f_bit, K, d, h, T, t, hdT, store, yHist>>

Next ==
    \/ Lookup
    \/ UseDefaults
    \/ Sample
    \/ Evaluate
    \/ Shift
    \/ BitWidths
    \/ Thin
    \/ InitLadder
    \/ LoopStep
    \/ LoopExit
    \/ Package
    \/ Save
    \/ Finish

Spec == Init /\ [][Next]_vars

----------------------------------------------------------------------------
(* Properties *)

\* the statement the run is at, or was at when it raised
Stage == IF pc = "failed" THEN failedAt ELSE pc

\* the statement `step` has been executed and did not raise
Reached(step) == Pos(Stage) > Pos(step)

\* the record of lines 78-90 exists
Built == Reached("package")

\* the loop of lines 65-70 has run to its end
LoopDone == Reached("loop")

\* the number of iterations of the loop executed so far
Iterations == Size(yHist) - 1

\* the samples whose y was above d[i] when iteration i began
Above(i) == {k \in DOMAIN yHist[i - 1] : yHist[i - 1][k] > d[i]}

\* the sum of the thresholds subtracted from sample k in iterations 1..i
RECURSIVE Subtracted(_, _)
Subtracted(k, i) ==
    IF i = 0 THEN 0
    ELSE Subtracted(k, i - 1) + (IF k \in Above(i) THEN d[i] ELSE 0)

\* C1 (as the claim states it): the record has exactly K+1 entries in d,
\* K+1 level vectors in h and K+1 entries in T, also when K is negative.
C1_LengthsKPlus1 ==
    Built => /\ Size(hdT.d) = hdT.K + 1
             /\ hdT.h.shape[2] = hdT.K + 1
             /\ Size(hdT.T) = hdT.K + 1

\* C1 (amended): the record has exactly max(K, 0) + 1 entries in d, level
\* vectors in h and entries in T: K+1 of each when K >= 0, one of each when
\* K is negative.
C1_Lengths ==
    Built => /\ Size(hdT.d) = RangeLen(hdT.K) + 1
             /\ hdT.h.shape[2] = RangeLen(hdT.K) + 1
             /\ Size(hdT.T) = RangeLen(hdT.K) + 1
             /\ \A s \in DOMAIN hdT.h.at : Size(hdT.h.at[s]) = RangeLen(hdT.K) + 1

C1_Witness ==
    /\ Built
    /\ hdT.K < 0
    /\ Size(hdT.d) = 1
    /\ hdT.num_h >= 1

\* C2 (as the claim states it): d[0] = 0 and d[i] = 2^(i_bit - i) for every
\* i in 1..K; in units, d[i] * 2^i = 2^(i_bit + UnitBits).
C2_LadderAsClaimed ==
    Built => /\ hdT.d[0] = 0
             /\ \A i \in 1..hdT.K :
                   hdT.d[i] * Pow2(i) = Pow2(hdT.i_bit + UnitBits)

\* C2 (amended): d[0] = 0 and d[i] = 2^(i_bit - i + 1) for every i in 1..K,
\* so that d[1] = 2^i_bit; in units, d[i] * 2^i = 2^(i_bit + 1 + UnitBits).
C2_Ladder ==
    Built => /\ hdT.d[0] = 0
             /\ \A i \in 1..hdT.K :
                   hdT.d[i] * Pow2(i) = Pow2(hdT.i_bit + 1 + UnitBits)

C2_Witness ==
    /\ Built
    /\ hdT.K >= 3
    /\ hdT.d[1] = Pow2(hdT.i_bit + UnitBits)

\* C3: T[0] = 0 and, for every t in 1..K, T[t] is +infinity exactly when no
\* sample's y was above d[t] when iteration t began, and is otherwise the
\* least h[t] among the samples whose y was above d[t] then; h[t] is the
\* inverse of f at the y values as they were when iteration t began.
C3_LevelMinima ==
    Built =>
      /\ hdT.T[0] = Fin(0)
      /\ \A i \in 1..hdT.K :
           /\ (hdT.T[i] = Inf) <=> (Above(i) = {})
           /\ Above(i) # {} =>
                \E k \in Above(i) :
                   /\ hdT.T[i] = Fin(hdT.h.at[k][i])
                   /\ \A j \in Above(i) : hdT.h.at[k][i] <= hdT.h.at[j][i]
           /\ \A k \in DOMAIN yHist[i - 1] :
                Apply(target_func, hdT.h.at[k][i]) + hdT.b = yHist[i - 1][k]

\* a level whose minimum over the samples above the threshold is not the
\* minimum over all samples
C3_Witness ==
    /\ Built
    /\ \E i \in 1..hdT.K :
         /\ Above(i) # {}
         /\ hdT.T[i] # Inf
         /\ \E j \in DOMAIN yHist[i - 1] \ Above(i) :
               hdT.h.at[j][i] < Val(hdT.T[i])

\* C4 (as the claim states it): when any one of dy, l, r is None in the
\* call, all three locals hold the configuration's values after the
\* defaults branch.
C4_AnyOmittedAllDefault ==
    (Reached("defaults") /\ (IsNone(args.dy) \/ IsNone(args.l) \/ IsNone(args.r)))
      => /\ dy = Some(config.dy)
         /\ l = Some(config.l)
         /\ r = Some(config.r)

\* the effective dy, l, r (after the defaults branch) are numbers with
\* r <= l or dy <= 0
InvalidDomain ==
    /\ Reached("defaults")
    /\ ~IsNone(dy) /\ ~IsNone(l) /\ ~IsNone(r)
    /\ (Val(r) <= Val(l) \/ Val(dy) <= 0)

\* C5 (as the claim states it): a call with r <= l or dy <= 0 fails with
\* InvalidDomain before the domain is sampled and the function evaluated.
C5_RejectedBeforeSampling ==
    InvalidDomain => /\ ~Reached("sample")
                     /\ pc = "failed" => err = "InvalidDomain"

\* C5 (amended): a run whose effective dy, l, r have r <= l or dy <= 0 never
\* gets past the bit-width statements and writes nothing, and it can only
\* stop by raising; what it raises is ValueError or OverflowError, after the
\* domain has been sampled and the function evaluated: at np.min of the empty
\* sample when r <= l, at the bit widths otherwise.
C5_FailsAfterSampling ==
    InvalidDomain =>
      /\ ~Reached("bits")
      /\ store = "absent"
      /\ pc # "failed" => ENABLED Next
      /\ pc = "failed" =>
           /\ Reached("evaluate")
           /\ err \in {"ValueError", "OverflowError"}
           /\ failedAt = (IF Val(r) <= Val(l) THEN "bias" ELSE "bits")

C5_Witness ==
    /\ InvalidDomain
    /\ pc = "failed"
    /\ Val(r) > Val(l)
    /\ Val(dy) < 0
    /\ Size(y) >= 2
    /\ err = "ValueError"

\* C6: the write is the last step: once anything has been written the run
\* is past torch.save (or torch.save itself raised), a run that raised
\* earlier has written nothing, and no statement of the computation runs
\* once something has been written.
C6_WriteLast ==
    /\ [](store # "absent" =>
            \/ pc \in {"finish", "done"}
            \/ (pc = "failed" /\ failedAt = "save"))
    /\ []((pc = "failed" /\ failedAt # "save") => store = "absent")
    /\ [][store # "absent" =>
            UNCHANGED <<x, y, b, M, i_bit, f_bit, K, d, h, T, t, hdT>>]_vars

C6_Witness ==
    /\ pc = "done"
    /\ store = "complete"
    /\ hdT.K >= 2
    /\ Iterations = hdT.K

\* C7: d[0] = 0 and d is strictly decreasing over the indices 1..K.
C7_StrictlyDecreasing ==
    Built => /\ hdT.d[0] = 0
             /\ \A i \in 1..(hdT.K - 1) : hdT.d[i] > hdT.d[i + 1]

C7_Witness ==
    /\ Built
    /\ hdT.K >= 3
    /\ hdT.d[2] > hdT.d[3]

\* C8: from the bias step onward no working y is negative, and iteration i
\* leaves a y unchanged when it is at most d[i] and reduces it by exactly
\* d[i] when it is above d[i], so that 0 <= y_after <= y_before.
C8_NonNegativeNonIncreasing ==
    /\ Reached("bias") => \A k \in DOMAIN y : y[k] >= 0
    /\ Reached("init") =>
         \A i \in 1..Iterations : \A k \in DOMAIN yHist[i] :
            LET before == yHist[i - 1][k]
                after  == yHist[i][k]
            IN /\ 0 <= after
               /\ after <= before
               /\ before <= d[i] => after = before
               /\ before > d[i] => after = before - d[i]

C8_Witness ==
    /\ LoopDone
    /\ \E i \in 1..Iterations : \E k \in DOMAIN y :
          /\ yHist[i][k] < yHist[i - 1][k]
          /\ \E j \in DOMAIN y : yHist[i][j] = yHist[i - 1][j] /\ yHist[i][j] > 0

\* C9: after iteration i every working y is at most d[i]; after the last
\* iteration every residual is at most d[K] = 2^(i_bit - K + 1), and each
\* sample's shifted y is its residual plus the thresholds subtracted from it.
C9_ResidualBounded ==
    /\ Reached("init") =>
         \A i \in 1..Iterations : \A k \in DOMAIN yHist[i] : yHist[i][k] <= d[i]
    /\ (LoopDone /\ K >= 1) =>
         /\ Iterations = K
         /\ \A k \in DOMAIN y :
              /\ y[k] * Pow2(K) <= Pow2(i_bit + 1 + UnitBits)
              /\ y[k] <= d[K]
              /\ yHist[0][k] = y[k] + Subtracted(k, K)

C9_Witness ==
    /\ LoopDone
    /\ K >= 3
    /\ \E k \in DOMAIN y :
          /\ y[k] > 0
          /\ Subtracted(k, K) > d[K]
          /\ y[k] < yHist[0][k]

\* C10: whenever K >= 1, d[1] = 2^i_bit is at least the largest shifted y,
\* iteration 1 changes no y, and T[1] is +infinity.
C10_FirstLevelEmpty ==
    /\ (Reached("init") /\ K >= 1) =>
         /\ d[1] >= M
         /\ \A k \in DOMAIN yHist[0] : yHist[0][k] <= d[1]
    /\ (Reached("init") /\ Iterations >= 1) =>
         /\ yHist[1] = yHist[0]
         /\ T[1] = Inf
    /\ (Built /\ hdT.K >= 1) => hdT.T[1] = Inf

\* the largest shifted y sits exactly on the first threshold
C10_Witness ==
    /\ Built
    /\ hdT.K >= 1
    /\ \E k \in DOMAIN yHist[0] : yHist[0][k] = hdT.d[1]
    /\ hdT.T[1] = Inf

====
